---------------------------- MODULE Spec2Model ----------------------------
(***************************************************************************)
(* oggify (src/src/main.rs): the track retrieval pipeline of main().       *)
(*                                                                         *)
(* The main thread reads stdin line by line, extracts a track id, resolves *)
(* the track (with alternatives), selects an encoding, requests the audio  *)
(* key, opens the encrypted stream, reads it on a worker thread while the  *)
(* main thread turns the event loop, decrypts, and writes the payload to a *)
(* file or to a helper process.  Every `expect`/`unwrap`/`assert!` of the  *)
(* source is a panic of the main thread.                                   *)
(*                                                                         *)
(* Text is a sequence of one-character strings.  A SpotifyId is the        *)
(* base-62 numeral of its value without leading zeros.  The remote         *)
(* collaborators (transport, helper process, filesystem) answer            *)
(* nondeterministically from bounded sets.                                 *)
(***************************************************************************)
EXTENDS Integers, Sequences, FiniteSets, TLC

VARIABLES
    args,             \* args.len(): 1 = file mode, 2 = helper mode, 3 = too many
    pc,               \* position of the main thread in main()
    failure,          \* the panic / exit message once the process has died
    nread,            \* number of lines taken from stdin so far
    line,             \* the line handed to the filter_map closure
    id,               \* the SpotifyId handed to the for_each closure
    refs,             \* history: line numbers that yielded an id, in order
    track,            \* `track`
    altIdx,           \* position of find_map in track.alternatives
    fetchLog,         \* history: Track::get calls of the current line
    inflight,         \* transport futures handed to core.run, not yet completed
    artists_strs,     \* `artists_strs`
    file_id,          \* `file_id`
    key,              \* `key`
    encrypted_file,   \* `encrypted_file`: the streaming audio file
    buffer,           \* `buffer`
    read_all,         \* `read_all`
    fetched,          \* `fetched`
    wpc,              \* position of the pool's worker thread
    observed,         \* the main thread has loaded fetched = true
    acc,              \* history: accesses to buffer / read_all in the current line
    stores,           \* history: stores to `fetched` in the current line
    turns,            \* history: core.turn calls that delivered stream data
    decrypted_buffer, \* `decrypted_buffer`
    album,            \* `album`
    child,            \* the helper process and its stdin pipe
    fs,               \* files written by the current line (name, content)
    delivered,        \* history: payload handed over by the current line
    outputs,          \* history: line numbers that produced an output, in order
    events            \* history: diagnostics and pipeline steps of the current line

vars == <<args, pc, failure, nread, line, id, refs, track, altIdx,
          fetchLog, inflight, artists_strs, file_id, key,
          encrypted_file, buffer, read_all, fetched, wpc, observed, acc,
          stores, turns, decrypted_buffer, album, child, fs, delivered,
          outputs, events>>

inputVars  == <<nread, line, id, refs>>
trackVars  == <<track, altIdx, fetchLog, artists_strs>>
streamVars == <<file_id, key, encrypted_file>>
bridgeVars == <<buffer, read_all, fetched, wpc, observed, acc, stores, turns>>
outVars    == <<decrypted_buffer, album, child, fs, delivered, outputs>>

--------------------------------------------------------------------------
(* Bounds of the model *)

MaxLines   == 2     \* lines on stdin
MaxAlts    == 2     \* length of a track's alternatives list
MaxArtists == 2     \* length of a track's artist list
MaxPayload == 3     \* payload bytes after the preamble
ChunkBytes == 100   \* bytes one event-loop advance makes readable

(* decrypted_buffer[0xa7..] *)
PreambleLen == 167

--------------------------------------------------------------------------
(* Text, regular expressions and base-62 identifiers *)

Min(S) == CHOOSE x \in S : \A y \in S : x <= y

Base62Digits ==
    << "0","1","2","3","4","5","6","7","8","9",
       "a","b","c","d","e","f","g","h","i","j","k","l","m",
       "n","o","p","q","r","s","t","u","v","w","x","y","z",
       "A","B","C","D","E","F","G","H","I","J","K","L","M",
       "N","O","P","Q","R","S","T","U","V","W","X","Y","Z" >>

(* [[:alnum:]] *)
IsAlnum(c) == \E i \in 1..Len(Base62Digits) : Base62Digits[i] = c

(* spotify:track: *)
UriPrefix == <<"s","p","o","t","i","f","y",":","t","r","a","c","k",":">>

(* open\.spotify\.com/track/ *)
UrlPrefix == <<"o","p","e","n",".","s","p","o","t","i","f","y",".",
               "c","o","m","/","t","r","a","c","k","/">>

(* positions at which prefix ([[:alnum:]]+) matches in str *)
MatchStarts(prefix, str) ==
    { i \in 1..Len(str) :
        /\ i + Len(prefix) <= Len(str)
        /\ SubSeq(str, i, i + Len(prefix) - 1) = prefix
        /\ IsAlnum(str[i + Len(prefix)]) }

(* Regex::captures: the leftmost match, its group 1 the longest run of     *)
(* alphanumerics after the prefix; <<>> is None, <<run>> is Some.          *)
Captures(prefix, str) ==
    IF MatchStarts(prefix, str) = {} THEN <<>>
    ELSE LET from == Min(MatchStarts(prefix, str)) + Len(prefix)
             to   == CHOOSE j \in from..Len(str) :
                        /\ \A k \in from..j : IsAlnum(str[k])
                        /\ (j = Len(str) \/ ~IsAlnum(str[j + 1]))
         IN  << SubSeq(str, from, to) >>

DigitValue(c) == (CHOOSE i \in 1..Len(Base62Digits) : Base62Digits[i] = c) - 1

RECURSIVE StripZeros(_)
StripZeros(ds) ==
    IF ds # <<>> /\ ds[1] = 0 THEN StripZeros(Tail(ds)) ELSE ds

(* SpotifyId::from_base62: n = n * 62 + d for every character, an error on *)
(* a character outside the alphabet.  <<>> is Err, <<id>> is Ok.           *)
from_base62(str) ==
    IF \E i \in 1..Len(str) : ~IsAlnum(str[i]) THEN <<>>
    ELSE << StripZeros([i \in 1..Len(str) |-> DigitValue(str[i])]) >>

(* SpotifyId::to_base62: 22 characters, zero padded *)
to_base62(n) ==
    [i \in 1..22 |->
        IF i <= 22 - Len(n) THEN "0"
        ELSE Base62Digits[n[i - (22 - Len(n))] + 1]]

(* a variant of UriOrUrl: the URL form tried first *)
UriOrUrl_UrlFirst(str) ==
    IF Captures(UrlPrefix, str) # <<>> THEN Captures(UrlPrefix, str)
    ELSE Captures(UriPrefix, str)

(* spotify_uri.captures(&str).or(spotify_url.captures(&str)) *)
UriOrUrl(str) ==
    IF Captures(UriPrefix, str) # <<>> THEN Captures(UriPrefix, str)
    ELSE Captures(UrlPrefix, str)

(* The filter_map closure on a line that was read: <<>> or <<id>>. *)
Extract(str) ==
    IF UriOrUrl(str) = <<>> THEN <<>> ELSE from_base62(UriOrUrl(str)[1])

(* Lines on stdin: a URI reference, a URL reference, both forms in either *)
(* order, and text that is no reference.                                  *)
UriLine  == UriPrefix \o <<"1">>
UrlLine  == UrlPrefix \o <<"2">>
JunkLine == <<"t","r","a","c","k"," ","1">>
InputLines ==
    { UriLine, UrlLine, JunkLine,
      UriLine \o <<" ">> \o UrlLine,
      UrlLine \o <<" ">> \o UriLine }

NoLine == <<"\n">>
NoId   == <<-1>>

--------------------------------------------------------------------------
(* The catalogue as the transport collaborator may report it *)

Formats == {"OGG_VORBIS_320", "OGG_VORBIS_160", "OGG_VORBIS_96", "MP3_256"}

FileHandle(tid, fmt) == [track |-> tid, format |-> fmt]
NoFile == [track |-> NoId, format |-> "none"]

(* track.files: format -> file id, for the formats the track offers *)
FileMap(tid, fmts) == [f \in fmts |-> FileHandle(tid, f)]

FileSets ==
    { {}, {"MP3_256"}, {"OGG_VORBIS_96", "MP3_256"},
      {"OGG_VORBIS_320", "OGG_VORBIS_160", "OGG_VORBIS_96"} }

ArtistOrder == <<"a2", "a1", "a3", "a4">>
ArtistLists == { SubSeq(ArtistOrder, 1, n) : n \in 0..MaxArtists }

AltIds == { <<3>>, <<4>> }

RECURSIVE SeqsUpTo(_, _)
SeqsUpTo(S, n) ==
    IF n = 0 THEN { <<>> }
    ELSE SeqsUpTo(S, n - 1) \cup
         { Append(s, x) : s \in { t \in SeqsUpTo(S, n - 1) : Len(t) = n - 1 },
                          x \in S }

AltLists == SeqsUpTo(AltIds, MaxAlts)

Meta(tid, av, alts, arts, fmts) ==
    [id |-> tid, name |-> <<"track", tid>>, album |-> <<"album", tid>>,
     available |-> av, alternatives |-> alts, artists |-> arts,
     files |-> FileMap(tid, fmts)]

NoTrack == Meta(NoId, FALSE, <<>>, <<>>, {})

(* Track::get(&session, tid) resolved: an available track with its artists *)
(* and files, or an unavailable one with its alternatives.  The fields the *)
(* program never reads of such a track are fixed: the alternatives of an   *)
(* available track, the artists and files of an unavailable one.           *)
TrackResponses(tid) ==
    { Meta(tid, TRUE, <<>>, ar, fm) : ar \in ArtistLists, fm \in FileSets }
    \cup { Meta(tid, FALSE, al, <<"a3">>, {}) : al \in AltLists }

ArtistName(a) == <<"artist", a>>
AlbumMeta(al) == [name |-> <<"name", al>>, date |-> <<"date", al>>]
NoAlbum == [name |-> <<"name", <<"album", NoId>>>>,
            date |-> <<"date", <<"album", NoId>>>>]

--------------------------------------------------------------------------
(* Panics and the state of the locals *)

(* a variant of Fail: the failure is caught at the closure's boundary and *)
(* the iterator moves on                                                   *)
Fail_CaughtAndContinued(msg) ==
    /\ pc' = "lines"
    /\ failure' = msg

(* expect / unwrap / assert! failing: the main thread panics, nothing in  *)
(* main() catches the unwind, the process ends.                            *)
Fail(msg) ==
    /\ pc' = "panicked"
    /\ failure' = msg

(* The for_each closure returns: its locals are dropped and the iterator  *)
(* is asked for the next item.                                             *)
NextItem ==
    /\ pc' = "lines"
    /\ failure' = failure

NoStream == [file |-> NoFile, len |-> 0, avail |-> 0, pos |-> 0]
NoKey    == [track |-> NoId, file |-> NoFile]
NoChild  == [state |-> "none", argv |-> <<>>, stdin |-> <<>>,
             pipe |-> "none", status |-> 0]

Init ==
    /\ args \in 1..3
    /\ pc = "start"
    /\ failure = ""
    /\ nread = 0
    /\ line = NoLine
    /\ id = NoId
    /\ refs = <<>>
    /\ track = NoTrack
    /\ altIdx = 0
    /\ fetchLog = <<>>
    /\ inflight = {}
    /\ artists_strs = <<>>
    /\ file_id = NoFile
    /\ key = NoKey
    /\ encrypted_file = NoStream
    /\ buffer = <<>>
    /\ read_all = [ok |-> TRUE, n |-> 0]
    /\ fetched = FALSE
    /\ wpc = "idle"
    /\ observed = FALSE
    /\ acc = {}
    /\ stores = <<>>
    /\ turns = 0
    /\ decrypted_buffer = <<>>
    /\ album = NoAlbum
    /\ child = NoChild
    /\ fs = <<>>
    /\ delivered = <<>>
    /\ outputs = <<>>
    /\ events = <<>>

(* What a line leaves behind is dropped when the next line is taken. *)
DropLocals ==
    /\ id' = NoId
    /\ track' = NoTrack
    /\ altIdx' = 0
    /\ fetchLog' = <<>>
    /\ artists_strs' = <<>>
    /\ file_id' = NoFile
    /\ key' = NoKey
    /\ encrypted_file' = NoStream
    /\ buffer' = <<>>
    /\ read_all' = [ok |-> TRUE, n |-> 0]
    /\ fetched' = FALSE
    /\ observed' = FALSE
    /\ acc' = {}
    /\ stores' = <<>>
    /\ turns' = 0
    /\ decrypted_buffer' = <<>>
    /\ album' = NoAlbum
    /\ child' = NoChild
    /\ fs' = <<>>
    /\ delivered' = <<>>
    /\ events' = <<>>

--------------------------------------------------------------------------
(* Start-up: main.rs lines 65-76 *)

(* a variant of ArgsOk: the count is not checked *)
ArgsOk_AnyCount(n) == n >= 1

(* args.len() == 1 || args.len() == 2 *)
ArgsOk(n) == n = 1 \/ n = 2

CheckArgs ==
    /\ pc = "start"
    /\ IF ArgsOk(args)
       THEN pc' = "credentials" /\ failure' = failure
       ELSE Fail("Usage")
    /\ UNCHANGED <<args, inputVars, trackVars, inflight,
                   streamVars, bridgeVars, outVars, events>>

(* get_credentials: process::exit(1) when no credentials are found *)
GetCredentials ==
    /\ pc = "credentials"
    /\ \/ pc' = "connect" /\ failure' = failure
       \/ pc' = "exited" /\ failure' = "No credentials found."
    /\ UNCHANGED <<args, inputVars, trackVars, inflight,
                   streamVars, bridgeVars, outVars, events>>

(* core.run(Session::connect(..)).unwrap() *)
Connect ==
    /\ pc = "connect"
    /\ \/ pc' = "lines" /\ failure' = failure
       \/ Fail("connect")
    /\ UNCHANGED <<args, inputVars, trackVars, inflight,
                   streamVars, bridgeVars, outVars, events>>

--------------------------------------------------------------------------
(* The Extractor: main.rs lines 83-88 *)

(* lines().next(): a line, a read error, or the end of the input *)
ReadLine ==
    /\ pc = "lines"
    /\ nread < MaxLines
    /\ nread' = nread + 1
    /\ line' \in InputLines
    /\ pc' = "filter_map"
    /\ DropLocals
    /\ UNCHANGED <<args, failure, refs, inflight, wpc, outputs>>

(* a line that cannot be read: line.ok() is None, the closure yields nothing *)
ReadError ==
    /\ pc = "lines"
    /\ nread < MaxLines
    /\ nread' = nread + 1
    /\ line' = NoLine
    /\ pc' = "lines"
    /\ DropLocals
    /\ UNCHANGED <<args, failure, refs, inflight, wpc, outputs>>

EndOfInput ==
    /\ pc = "lines"
    /\ pc' = "done"
    /\ UNCHANGED <<args, failure, inputVars, trackVars, inflight,
                   streamVars, bridgeVars, outVars, events>>

(* a variant of Skipped: the closure insists on a reference *)
Skipped_Fatal == Fail("Cannot parse track")

(* the closure returns None: filter_map drops the line and asks for the   *)
(* next one                                                                *)
Skipped ==
    /\ pc' = "lines"
    /\ failure' = failure

(* a variant of DecodeErr: the other form of the line is decoded instead *)
DecodeErr_TriesUrl(str) ==
    IF Captures(UriPrefix, str) # <<>> /\ Captures(UrlPrefix, str) # <<>>
    THEN from_base62(Captures(UrlPrefix, str)[1])
    ELSE <<>>

(* SpotifyId::from_base62(..) is Err: .ok() is None and and_then ends the *)
(* closure with it                                                         *)
DecodeErr(str) == <<>>

(* What the closure may return for a line: the decoded capture, or, on a  *)
(* line with a capture, what is left when the library rejects the numeral. *)
Outcomes(str) ==
    {Extract(str)} \cup (IF UriOrUrl(str) = <<>> THEN {} ELSE {DecodeErr(str)})

(* the filter_map closure *)
FilterMap ==
    /\ pc = "filter_map"
    /\ \E r \in Outcomes(line) :
         IF r = <<>>
         THEN /\ Skipped
              /\ line' = IF UriOrUrl(line) = <<>> THEN NoLine ELSE line
              /\ UNCHANGED <<id, refs>>
              /\ events' = Append(events,
                               IF UriOrUrl(line) = <<>>
                               THEN "warn: Cannot parse track"
                               ELSE "from_base62: Err")
         ELSE /\ pc' = "for_each"
              /\ failure' = failure
              /\ id' = r[1]
              /\ refs' = Append(refs, nread)
              /\ UNCHANGED <<line, events>>
    /\ UNCHANGED <<args, nread, trackVars, inflight, streamVars,
                   bridgeVars, outVars>>

--------------------------------------------------------------------------
(* The Resolver: main.rs lines 90-103 *)

(* info!("Getting track ..."); the future of Track::get is handed to core.run *)
TrackReq ==
    /\ pc = "for_each"
    /\ line' = NoLine
    /\ inflight' = inflight \cup {[op |-> "track", arg |-> id]}
    /\ pc' = "track_wait"
    /\ UNCHANGED <<args, failure, nread, id, refs, trackVars,
                   streamVars, bridgeVars, outVars, events>>

(* core.run returns: .expect("Cannot get track metadata"), line 92 *)
TrackResp ==
    /\ pc = "track_wait"
    /\ inflight' = inflight \ {[op |-> "track", arg |-> id]}
    /\ \/ /\ Fail("Cannot get track metadata")
          /\ fetchLog' = Append(fetchLog, [at |-> 0, id |-> id, res |-> "err"])
          /\ UNCHANGED <<track, altIdx, events>>
       \/ \E r \in TrackResponses(id) :
            /\ track' = r
            /\ fetchLog' = Append(fetchLog,
                   [at |-> 0, id |-> id,
                    res |-> IF r.available THEN "available" ELSE "unavailable"])
            /\ failure' = failure
            /\ IF r.available
               THEN pc' = "artists" /\ UNCHANGED <<altIdx, events>>
               ELSE /\ pc' = "find_map"
                    /\ altIdx' = 1
                    /\ events' = Append(events, "warn: not available")
    /\ UNCHANGED <<args, inputVars, artists_strs, streamVars, bridgeVars,
                   outVars>>

(* a variant of AltAt: the list walked from its end *)
AltAt_Reversed(alts, i) == alts[Len(alts) + 1 - i]

(* a variant of AltMatch: the arms of the match exchanged *)
AltMatch_ArmsSwapped(alt_track) == ~alt_track.available

(* track.alternatives.iter(): the i-th item of the walk *)
AltAt(alts, i) == alts[i]

(* match alt_track.available { true => Some(alt_track), false => None } *)
AltMatch(alt_track) == alt_track.available

(* a variant of Substitute: the assignment to track is lost *)
Substitute_KeepsOriginal(orig, alt) == orig

(* track = alt_track.expect(..) *)
Substitute(orig, alt) == alt

(* find_map asks for the next alternative: none left is the expect of     *)
(* line 101, otherwise Track::get of the alternative is handed to core.run *)
AltReq ==
    /\ pc = "find_map"
    /\ IF altIdx > Len(track.alternatives)
       THEN /\ Fail("Could not find alternative")
            /\ UNCHANGED inflight
       ELSE /\ inflight' = inflight \cup
                   {[op |-> "track", arg |-> AltAt(track.alternatives, altIdx)]}
            /\ pc' = "alt_wait"
            /\ failure' = failure
    /\ UNCHANGED <<args, inputVars, trackVars, streamVars,
                   bridgeVars, outVars, events>>

(* the alternative's metadata arrives: Some(alt_track) ends the search    *)
(* and is assigned to track, None moves on                                 *)
AltResp ==
    /\ pc = "alt_wait"
    /\ LET alt == AltAt(track.alternatives, altIdx) IN
       /\ inflight' = inflight \ {[op |-> "track", arg |-> alt]}
       /\ \/ /\ Fail("Cannot get track metadata")
             /\ fetchLog' = Append(fetchLog,
                                   [at |-> altIdx, id |-> alt, res |-> "err"])
             /\ UNCHANGED <<track, altIdx, events>>
          \/ \E r \in TrackResponses(alt) :
               /\ fetchLog' = Append(fetchLog,
                      [at |-> altIdx, id |-> alt,
                       res |-> IF r.available THEN "available"
                               ELSE "unavailable"])
               /\ failure' = failure
               /\ IF AltMatch(r)
                  THEN /\ track' = Substitute(track, r)
                       /\ events' = Append(events, "warn: Found track alternative")
                       /\ pc' = "artists"
                       /\ UNCHANGED altIdx
                  ELSE /\ altIdx' = altIdx + 1
                       /\ pc' = "find_map"
                       /\ UNCHANGED <<track, events>>
    /\ UNCHANGED <<args, inputVars, artists_strs, streamVars, bridgeVars,
                   outVars>>

--------------------------------------------------------------------------
(* Artists and the Encoding Selector: main.rs lines 104-109 *)

(* The map over track.artists: the next Artist::get is handed to core.run, *)
(* or the names are collected.                                             *)
ArtistReq ==
    /\ pc = "artists"
    /\ IF Len(artists_strs) = Len(track.artists)
       THEN pc' = "select" /\ UNCHANGED inflight
       ELSE /\ inflight' = inflight \cup
                 {[op |-> "artist", arg |-> track.artists[Len(artists_strs) + 1]]}
            /\ pc' = "artist_wait"
    /\ UNCHANGED <<args, failure, inputVars, trackVars, streamVars,
                   bridgeVars, outVars, events>>

(* .expect("Cannot get artist metadata").name *)
ArtistResp ==
    /\ pc = "artist_wait"
    /\ LET a == track.artists[Len(artists_strs) + 1] IN
       /\ inflight' = inflight \ {[op |-> "artist", arg |-> a]}
       /\ events' = Append(events, "artist")
       /\ \/ /\ Fail("Cannot get artist metadata")
             /\ UNCHANGED artists_strs
          \/ /\ artists_strs' = Append(artists_strs, ArtistName(a))
             /\ pc' = "artists"
             /\ failure' = failure
    /\ UNCHANGED <<args, inputVars, track, altIdx, fetchLog, streamVars,
                   bridgeVars, outVars>>

(* a variant of SelectFile: the tiers tried from the lowest *)
SelectFile_LowestFirst(files) ==
    IF "OGG_VORBIS_96" \in DOMAIN files THEN << files["OGG_VORBIS_96"] >>
    ELSE IF "OGG_VORBIS_160" \in DOMAIN files THEN << files["OGG_VORBIS_160"] >>
    ELSE IF "OGG_VORBIS_320" \in DOMAIN files THEN << files["OGG_VORBIS_320"] >>
    ELSE <<>>

(* a variant of SelectFile: any format will do when no tier is offered *)
SelectFile_AnyFormat(files) ==
    IF "OGG_VORBIS_320" \in DOMAIN files THEN << files["OGG_VORBIS_320"] >>
    ELSE IF "OGG_VORBIS_160" \in DOMAIN files THEN << files["OGG_VORBIS_160"] >>
    ELSE IF "OGG_VORBIS_96" \in DOMAIN files THEN << files["OGG_VORBIS_96"] >>
    ELSE IF DOMAIN files # {} THEN << files[CHOOSE f \in DOMAIN files : TRUE] >>
    ELSE <<>>

(* files.get(320).or(files.get(160)).or(files.get(96)): <<>> is None *)
SelectFile(files) ==
    IF "OGG_VORBIS_320" \in DOMAIN files THEN << files["OGG_VORBIS_320"] >>
    ELSE IF "OGG_VORBIS_160" \in DOMAIN files THEN << files["OGG_VORBIS_160"] >>
    ELSE IF "OGG_VORBIS_96" \in DOMAIN files THEN << files["OGG_VORBIS_96"] >>
    ELSE <<>>

(* .expect("Could not find a OGG_VORBIS format for the track.") *)
Select ==
    /\ pc = "select"
    /\ events' = Append(events, "select")
    /\ IF SelectFile(track.files) = <<>>
       THEN /\ Fail("Could not find a OGG_VORBIS format")
            /\ UNCHANGED file_id
       ELSE /\ file_id' = SelectFile(track.files)[1]
            /\ pc' = "key_req"
            /\ failure' = failure
    /\ UNCHANGED <<args, inputVars, trackVars, inflight, key, encrypted_file,
                   bridgeVars, outVars>>

--------------------------------------------------------------------------
(* Key and stream: main.rs lines 110-111 *)

(* session.audio_key().request(track.id, *file_id) handed to core.run *)
KeyReq ==
    /\ pc = "key_req"
    /\ inflight' = inflight \cup
           {[op |-> "key", arg |-> <<track.id, file_id>>]}
    /\ events' = Append(events, "key_req")
    /\ pc' = "key_wait"
    /\ UNCHANGED <<args, failure, inputVars, trackVars, streamVars,
                   bridgeVars, outVars>>

(* .expect("Cannot get audio key") *)
KeyResp ==
    /\ pc = "key_wait"
    /\ inflight' = inflight \ {[op |-> "key", arg |-> <<track.id, file_id>>]}
    /\ \/ /\ Fail("Cannot get audio key")
          /\ UNCHANGED key
       \/ /\ key' = [track |-> track.id, file |-> file_id]
          /\ pc' = "open_req"
          /\ failure' = failure
    /\ UNCHANGED <<args, inputVars, trackVars, file_id, encrypted_file,
                   bridgeVars, outVars, events>>

(* AudioFile::open(&session, *file_id) handed to core.run *)
OpenReq ==
    /\ pc = "open_req"
    /\ inflight' = inflight \cup {[op |-> "open", arg |-> file_id]}
    /\ events' = Append(events, "open_req")
    /\ pc' = "open_wait"
    /\ UNCHANGED <<args, failure, inputVars, trackVars, streamVars,
                   bridgeVars, outVars>>

(* lengths of the encrypted file: shorter than the preamble, the preamble *)
(* alone, and a preamble with a payload                                    *)
StreamLens == {PreambleLen - 1, PreambleLen, PreambleLen + MaxPayload}

(* .unwrap(): the stream is open, none of its bytes is readable yet *)
OpenResp ==
    /\ pc = "open_wait"
    /\ inflight' = inflight \ {[op |-> "open", arg |-> file_id]}
    /\ \/ /\ Fail("open")
          /\ UNCHANGED encrypted_file
       \/ \E n \in StreamLens :
            /\ encrypted_file' =
                   [file |-> file_id, len |-> n, avail |-> 0, pos |-> 0]
            /\ pc' = "spawn"
            /\ failure' = failure
    /\ UNCHANGED <<args, inputVars, trackVars, file_id, key, bridgeVars,
                   outVars, events>>

--------------------------------------------------------------------------
(* The encrypted stream and the cipher *)

FormatTag(f) ==
    CASE f = "OGG_VORBIS_320" -> 3
      [] f = "OGG_VORBIS_160" -> 2
      [] f = "OGG_VORBIS_96"  -> 1
      [] OTHER                -> 0

(* byte i of the decrypted container of a file *)
PlainByte(file, i) == (3 * i + FormatTag(file.format)) % 256

(* the cipher's key stream: a byte per position, fixed by the key *)
KeyStream(k, i) == (5 * i + 7 * FormatTag(k.file.format) + Len(k.track)) % 256

(* byte i of the encrypted file as the transport serves it *)
CipherByte(file, i) ==
    (PlainByte(file, i) + KeyStream([track |-> file.track, file |-> file], i)) % 256

(* AudioDecrypt::new(key, &buffer[..]).read_to_end: byte for byte *)
Decrypt(k, buf) ==
    [i \in 1..Len(buf) |-> (buf[i] + 256 - KeyStream(k, i)) % 256]

(* a variant of SliceInRange: a short buffer yields an empty slice *)
SliceInRange_Clamped(buf) == TRUE

(* the range 0xa7.. lies within the buffer; the slice panics otherwise *)
SliceInRange(buf) == PreambleLen <= Len(buf)

(* a variant of Payload: the slice taken one byte early *)
Payload_OneByteEarly(buf) == SubSeq(buf, PreambleLen, Len(buf))

(* &decrypted_buffer[0xa7..] *)
Payload(buf) == SubSeq(buf, PreambleLen + 1, Len(buf))

--------------------------------------------------------------------------
(* The bridging phase: main.rs lines 112-124 *)

Access(who, obj) ==
    [who |-> who, obj |-> obj, spawned |-> wpc # "idle" \/ fetched,
     flag |-> fetched, seen |-> observed]

(* buffer, read_all and fetched are created, the closure is handed to the *)
(* pool's one thread                                                       *)
SpawnWorker ==
    /\ pc = "spawn"
    /\ wpc = "idle"
    /\ buffer' = <<>>
    /\ read_all' = [ok |-> TRUE, n |-> 0]
    /\ fetched' = FALSE
    /\ observed' = FALSE
    /\ acc' = acc \cup {Access("main", "buffer"), Access("main", "read_all")}
    /\ wpc' = "read"
    /\ pc' = "poll"
    /\ events' = Append(events, "spawn_worker")
    /\ UNCHANGED <<args, failure, inputVars, trackVars, inflight, streamVars,
                   stores, turns, outVars>>

(* a variant of LoopCond: the negation lost *)
LoopCond_Inverted(flag) == flag

(* the loop condition: !fetched.load(Ordering::Acquire) *)
LoopCond(flag) == ~flag

(* while !fetched.load(..) { core.turn(..) }: the flag is loaded; the     *)
(* loop is left with the value that was loaded                             *)
Poll ==
    /\ pc = "poll"
    /\ IF LoopCond(fetched)
       THEN /\ pc' = "turn"
            /\ UNCHANGED <<observed, events>>
       ELSE /\ observed' = fetched
            /\ pc' = "join"
            /\ events' = Append(events, "loop_left")
    /\ UNCHANGED <<args, failure, inputVars, trackVars, inflight, streamVars,
                   buffer, read_all, fetched, wpc, acc, stores, turns,
                   outVars>>

(* a variant of TurnDeliver: the main thread waits without driving the    *)
(* transport, nothing becomes readable                                     *)
TurnDeliver_NothingDriven ==
    /\ pc = "turn"
    /\ encrypted_file.avail < encrypted_file.len
    /\ pc' = "poll"
    /\ UNCHANGED <<args, failure, inputVars, trackVars, inflight, streamVars,
                   bridgeVars, outVars, events>>

(* core.turn(100 ms) in which the transport delivers the next chunk *)
TurnDeliver ==
    /\ pc = "turn"
    /\ encrypted_file.avail < encrypted_file.len
    /\ encrypted_file' =
           [encrypted_file EXCEPT
               !.avail = Min({encrypted_file.len,
                              encrypted_file.avail + ChunkBytes})]
    /\ turns' = turns + 1
    /\ pc' = "poll"
    /\ UNCHANGED <<args, failure, inputVars, trackVars, inflight, file_id,
                   key, buffer, read_all, fetched, wpc, observed, acc, stores,
                   outVars, events>>

(* core.turn(100 ms) that times out with nothing delivered *)
TurnIdle ==
    /\ pc = "turn"
    /\ pc' = "poll"
    /\ UNCHANGED <<args, failure, inputVars, trackVars, inflight, streamVars,
                   bridgeVars, outVars, events>>

(* read_to_end on the worker: one read returns the readable bytes up to   *)
(* the end of the current chunk, and blocks while none is readable         *)
WorkerRead ==
    /\ wpc = "read"
    /\ encrypted_file.pos < encrypted_file.avail
    /\ LET from == encrypted_file.pos
           to   == Min({encrypted_file.avail,
                        ((from \div ChunkBytes) + 1) * ChunkBytes})
       IN  /\ buffer' = buffer \o
                  [i \in 1..(to - from) |->
                      CipherByte(encrypted_file.file, from + i)]
           /\ encrypted_file' = [encrypted_file EXCEPT !.pos = to]
    /\ acc' = acc \cup {Access("worker", "buffer")}
    /\ UNCHANGED <<args, pc, failure, inputVars, trackVars, inflight, file_id,
                   key, read_all, fetched, wpc, observed, stores, turns,
                   outVars, events>>

(* a read returns 0 at the end of the stream: read_all = Ok(n) *)
WorkerEof ==
    /\ wpc = "read"
    /\ encrypted_file.pos = encrypted_file.len
    /\ read_all' = [ok |-> TRUE, n |-> Len(buffer)]
    /\ acc' = acc \cup {Access("worker", "buffer"), Access("worker", "read_all")}
    /\ wpc' = "store"
    /\ UNCHANGED <<args, pc, failure, inputVars, trackVars, inflight,
                   streamVars, buffer, fetched, observed, stores, turns,
                   outVars, events>>

(* a variant of WorkerErr: the worker gives up without setting the flag *)
WorkerErr_NoStore ==
    /\ wpc = "read"
    /\ encrypted_file.pos < encrypted_file.len
    /\ read_all' = [ok |-> FALSE, n |-> 0]
    /\ acc' = acc \cup {Access("worker", "buffer"), Access("worker", "read_all")}
    /\ wpc' = "return"
    /\ UNCHANGED <<args, pc, failure, inputVars, trackVars, inflight,
                   streamVars, buffer, fetched, observed, stores, turns,
                   outVars, events>>

(* a read fails: read_all = Err(e), what was read stays in buffer *)
WorkerErr ==
    /\ wpc = "read"
    /\ encrypted_file.pos < encrypted_file.len
    /\ read_all' = [ok |-> FALSE, n |-> 0]
    /\ acc' = acc \cup {Access("worker", "buffer"), Access("worker", "read_all")}
    /\ wpc' = "store"
    /\ UNCHANGED <<args, pc, failure, inputVars, trackVars, inflight,
                   streamVars, buffer, fetched, observed, stores, turns,
                   outVars, events>>

(* fetched.store(true, Ordering::Release) *)
WorkerStore ==
    /\ wpc = "store"
    /\ stores' = Append(stores, [who |-> "worker", from |-> fetched, to |-> TRUE])
    /\ fetched' = TRUE
    /\ wpc' = "return"
    /\ UNCHANGED <<args, pc, failure, inputVars, trackVars, inflight,
                   streamVars, buffer, read_all, observed, acc, turns,
                   outVars, events>>

(* the closure returns and the pool's thread is free again *)
WorkerReturn ==
    /\ wpc = "return"
    /\ wpc' = "idle"
    /\ UNCHANGED <<args, pc, failure, inputVars, trackVars, inflight,
                   streamVars, buffer, read_all, fetched, observed, acc,
                   stores, turns, outVars, events>>

(* a variant of JoinReady: the scope does not wait for its job *)
JoinReady_NoJoin(w) == TRUE

(* the scope's join: every job handed to the scope has ended *)
JoinReady(w) == w = "idle"

(* threadpool.scoped returns once the scope's job has ended *)
Join ==
    /\ pc = "join"
    /\ JoinReady(wpc)
    /\ pc' = "read_all"
    /\ UNCHANGED <<args, failure, inputVars, trackVars, inflight, streamVars,
                   bridgeVars, outVars, events>>

(* a variant of ReadOk: the result of the read is not looked at *)
ReadOk_Ignored(r) == TRUE

(* read_all is Ok(n) *)
ReadOk(r) == r.ok

(* read_all.expect("Cannot read file stream") *)
CheckRead ==
    /\ pc = "read_all"
    /\ acc' = acc \cup {Access("main", "read_all")}
    /\ IF ReadOk(read_all)
       THEN pc' = "decrypt" /\ failure' = failure
       ELSE Fail("Cannot read file stream")
    /\ UNCHANGED <<args, inputVars, trackVars, inflight, streamVars, buffer,
                   read_all, fetched, wpc, observed, stores, turns, outVars,
                   events>>

--------------------------------------------------------------------------
(* Decryption and the Output Dispatcher: main.rs lines 125-140 *)

(* a variant of FileMode: the helper argument is not looked at *)
FileMode_Always(n) == TRUE

(* args.len() == 1: no helper was named *)
FileMode(n) == n = 1

(* AudioDecrypt over the whole buffer *)
DecryptAll ==
    /\ pc = "decrypt"
    /\ acc' = acc \cup {Access("main", "buffer")}
    /\ decrypted_buffer' = Decrypt(key, buffer)
    /\ events' = Append(events, "decrypt")
    /\ pc' = IF FileMode(args) THEN "write_file" ELSE "album_req"
    /\ UNCHANGED <<args, failure, inputVars, trackVars, inflight, streamVars,
                   buffer, read_all, fetched, wpc, observed, stores, turns,
                   album, child, fs, delivered, outputs>>

(* format!("{} - {}.ogg", artists_strs.join(", "), track.name) *)
FileName(artists, title) == [artists |-> artists, title |-> title, ext |-> "ogg"]

(* std::fs::write(&fname, &decrypted_buffer[0xa7..]): the slice panics on *)
(* a buffer shorter than the preamble, the write may fail                  *)
WriteFile ==
    /\ pc = "write_file"
    /\ IF ~SliceInRange(decrypted_buffer)
       THEN /\ Fail("slice index out of range")
            /\ UNCHANGED <<fs, delivered, outputs, events>>
       ELSE \/ /\ Fail("Cannot write decrypted track")
               /\ UNCHANGED <<fs, delivered, outputs, events>>
            \/ /\ fs' = << [name |-> FileName(artists_strs, track.name),
                           content |-> Payload(decrypted_buffer)] >>
               /\ delivered' = << Payload(decrypted_buffer) >>
               /\ outputs' = Append(outputs, nread)
               /\ events' = Append(events, "file_write")
               /\ NextItem
    /\ UNCHANGED <<args, inputVars, trackVars, inflight, streamVars,
                   bridgeVars, decrypted_buffer, album, child>>

(* Album::get(&session, track.album) handed to core.run *)
AlbumReq ==
    /\ pc = "album_req"
    /\ inflight' = inflight \cup {[op |-> "album", arg |-> track.album]}
    /\ pc' = "album_wait"
    /\ UNCHANGED <<args, failure, inputVars, trackVars, streamVars,
                   bridgeVars, outVars, events>>

(* .expect("Cannot get album metadata") *)
AlbumResp ==
    /\ pc = "album_wait"
    /\ inflight' = inflight \ {[op |-> "album", arg |-> track.album]}
    /\ events' = Append(events, "album")
    /\ \/ /\ Fail("Cannot get album metadata")
          /\ UNCHANGED album
       \/ /\ album' = AlbumMeta(track.album)
          /\ pc' = "spawn_helper"
          /\ failure' = failure
    /\ UNCHANGED <<args, inputVars, trackVars, streamVars, bridgeVars,
                   decrypted_buffer, child, fs, delivered, outputs>>

(* a variant of HelperArgs: the id of the track that is delivered *)
HelperArgs_TrackId(ref, t, al, names) ==
    << to_base62(t.id), t.name, al.name, al.date >> \o names

(* .arg(id.to_base62()).arg(track.name).arg(album.name)                   *)
(* .arg(album.date.to_string()).args(artists_strs.iter())                  *)
HelperArgs(ref, t, al, names) ==
    << to_base62(ref), t.name, al.name, al.date >> \o names

(* Command::new(args[1]) .stdin(piped) .arg(..) .spawn() *)
SpawnHelper ==
    /\ pc = "spawn_helper"
    /\ \/ /\ Fail("Could not run helper program")
          /\ UNCHANGED <<child, events>>
       \/ /\ child' = [state |-> "running",
                       argv |-> HelperArgs(id, track, album, artists_strs),
                       stdin |-> <<>>, pipe |-> "open", status |-> 0]
          /\ events' = Append(events, "helper_spawn")
          /\ pc' = "write_all"
          /\ failure' = failure
    /\ UNCHANGED <<args, inputVars, trackVars, inflight, streamVars,
                   bridgeVars, decrypted_buffer, album, fs, delivered,
                   outputs>>

(* pipe.write_all(&decrypted_buffer[0xa7..]): the slice panics on a short *)
(* buffer; writing to a helper that is gone is a broken pipe               *)
WriteAll ==
    /\ pc = "write_all"
    /\ IF ~SliceInRange(decrypted_buffer)
       THEN /\ Fail("slice index out of range")
            /\ UNCHANGED <<child, delivered, events>>
       ELSE IF child.state = "exited" /\ Payload(decrypted_buffer) # <<>>
       THEN /\ Fail("Failed to write to stdin")
            /\ UNCHANGED <<child, delivered, events>>
       ELSE /\ child' = [child EXCEPT !.stdin = Payload(decrypted_buffer)]
            /\ delivered' = << Payload(decrypted_buffer) >>
            /\ events' = Append(events, "helper_write")
            /\ pc' = "wait"
            /\ failure' = failure
    /\ UNCHANGED <<args, inputVars, trackVars, inflight, streamVars,
                   bridgeVars, decrypted_buffer, album, fs, outputs>>

(* a variant of ClosePipe: the pipe is left open *)
ClosePipe_LeftOpen(c) == c

(* drop(self.stdin.take()) *)
ClosePipe(c) == [c EXCEPT !.pipe = "closed"]

(* child.wait() first drops the child's stdin handle: the pipe is closed *)
WaitClose ==
    /\ pc = "wait"
    /\ child' = ClosePipe(child)
    /\ events' = Append(events, "helper_close")
    /\ pc' = "reap"
    /\ UNCHANGED <<args, failure, inputVars, trackVars, inflight, streamVars,
                   bridgeVars, decrypted_buffer, album, fs, delivered,
                   outputs>>

(* child.wait() returns the exit status: assert!(status.success()) *)
WaitReap ==
    /\ pc = "reap"
    /\ child.state = "exited"
    /\ events' = Append(events, "helper_wait")
    /\ IF child.status = 0
       THEN /\ outputs' = Append(outputs, nread)
            /\ NextItem
       ELSE /\ Fail("Helper script returned an error")
            /\ UNCHANGED outputs
    /\ UNCHANGED <<args, inputVars, trackVars, inflight, streamVars,
                   bridgeVars, decrypted_buffer, album, child, fs, delivered>>

(* the helper process exits, with any status, whenever it chooses *)
ChildExit ==
    /\ pc \in {"write_all", "wait", "reap"}
    /\ child.state = "running"
    /\ \E st \in {0, 1} :
         child' = [child EXCEPT !.state = "exited", !.status = st]
    /\ UNCHANGED <<args, pc, failure, inputVars, trackVars, inflight,
                   streamVars, bridgeVars, decrypted_buffer, album, fs,
                   delivered, outputs, events>>

--------------------------------------------------------------------------
(* The Encoding Selector on its own: the main thread at line 106 with a   *)
(* resolved track offering any set of formats.                             *)

SelectInit ==
    /\ args \in {1, 2}
    /\ pc = "select"
    /\ failure = ""
    /\ nread = 1
    /\ line = NoLine
    /\ id \in {Extract(UriLine)[1], Extract(UrlLine)[1]}
    /\ refs = <<1>>
    /\ \E ar \in ArtistLists, fm \in SUBSET Formats :
         /\ track = Meta(id, TRUE, <<>>, ar, fm)
         /\ artists_strs = [i \in 1..Len(ar) |-> ArtistName(ar[i])]
         /\ events = [i \in 1..Len(ar) |-> "artist"]
    /\ altIdx = 0
    /\ fetchLog = << [at |-> 0, id |-> id, res |-> "available"] >>
    /\ inflight = {}
    /\ file_id = NoFile
    /\ key = NoKey
    /\ encrypted_file = NoStream
    /\ buffer = <<>>
    /\ read_all = [ok |-> TRUE, n |-> 0]
    /\ fetched = FALSE
    /\ wpc = "idle"
    /\ observed = FALSE
    /\ acc = {}
    /\ stores = <<>>
    /\ turns = 0
    /\ decrypted_buffer = <<>>
    /\ album = NoAlbum
    /\ child = NoChild
    /\ fs = <<>>
    /\ delivered = <<>>
    /\ outputs = <<>>

SelectNext == Select

SelectSpec == SelectInit /\ [][SelectNext]_vars

--------------------------------------------------------------------------
(* The bridging phase and the rest of the line after it: the main thread  *)
(* at line 112 with the stream of the selected file open and none of its  *)
(* bytes readable yet.                                                     *)

BridgeInit ==
    /\ args \in {1, 2}
    /\ pc = "spawn"
    /\ failure = ""
    /\ nread = 1
    /\ line = NoLine
    /\ id \in {Extract(UriLine)[1], Extract(UrlLine)[1]}
    /\ refs = <<1>>
    /\ \E fm \in { f \in FileSets : SelectFile(FileMap(id, f)) # <<>> } :
         track = Meta(id, TRUE, <<>>, <<>>, fm)
    /\ altIdx = 0
    /\ fetchLog = << [at |-> 0, id |-> id, res |-> "available"] >>
    /\ inflight = {}
    /\ artists_strs = <<>>
    /\ file_id = SelectFile(track.files)[1]
    /\ key = [track |-> track.id, file |-> file_id]
    /\ \E n \in StreamLens :
         encrypted_file = [file |-> file_id, len |-> n, avail |-> 0, pos |-> 0]
    /\ buffer = <<>>
    /\ read_all = [ok |-> TRUE, n |-> 0]
    /\ fetched = FALSE
    /\ wpc = "idle"
    /\ observed = FALSE
    /\ acc = {}
    /\ stores = <<>>
    /\ turns = 0
    /\ decrypted_buffer = <<>>
    /\ album = NoAlbum
    /\ child = NoChild
    /\ fs = <<>>
    /\ delivered = <<>>
    /\ outputs = <<>>
    /\ events = <<"select", "key_req", "open_req">>

MainStep ==
    SpawnWorker \/ Poll \/ TurnDeliver \/ TurnIdle \/ Join \/ CheckRead

WorkerStep == WorkerRead \/ WorkerEof \/ WorkerStore \/ WorkerReturn

(* lines 125-139: decryption and dispatch *)
AfterBridge ==
    \/ DecryptAll \/ WriteFile
    \/ AlbumReq \/ AlbumResp \/ SpawnHelper \/ WriteAll \/ WaitClose \/ WaitReap
    \/ ChildExit

BridgeNext == MainStep \/ WorkerStep \/ WorkerErr \/ AfterBridge

(* Both threads are scheduled; an event loop that is advanced again and   *)
(* again while bytes are outstanding eventually delivers them.             *)
BridgeLive ==
    /\ BridgeInit
    /\ [][BridgeNext]_vars
    /\ WF_vars(MainStep)
    /\ WF_vars(WorkerStep)
    /\ SF_vars(TurnDeliver)

Next ==
    \/ CheckArgs \/ GetCredentials \/ Connect
    \/ ReadLine \/ ReadError \/ EndOfInput \/ FilterMap
    \/ TrackReq \/ TrackResp \/ AltReq \/ AltResp
    \/ ArtistReq \/ ArtistResp \/ Select
    \/ KeyReq \/ KeyResp \/ OpenReq \/ OpenResp
    \/ SpawnWorker \/ Poll \/ TurnDeliver \/ TurnIdle
    \/ WorkerRead \/ WorkerEof \/ WorkerErr \/ WorkerStore \/ WorkerReturn
    \/ Join \/ CheckRead \/ DecryptAll
    \/ WriteFile
    \/ AlbumReq \/ AlbumResp \/ SpawnHelper \/ WriteAll \/ WaitClose \/ WaitReap
    \/ ChildExit

Spec == Init /\ [][Next]_vars

--------------------------------------------------------------------------
(* The run under scheduling: the main thread and the worker are scheduled, *)
(* every future handed to core.run completes, an event loop advanced again *)
(* and again delivers the outstanding bytes.  Nothing is assumed of the    *)
(* helper process.                                                         *)

MainThread ==
    \/ CheckArgs \/ GetCredentials \/ Connect
    \/ ReadLine \/ ReadError \/ EndOfInput \/ FilterMap
    \/ TrackReq \/ TrackResp \/ AltReq \/ AltResp
    \/ ArtistReq \/ ArtistResp \/ Select
    \/ KeyReq \/ KeyResp \/ OpenReq \/ OpenResp
    \/ MainStep \/ DecryptAll \/ WriteFile
    \/ AlbumReq \/ AlbumResp \/ SpawnHelper \/ WriteAll \/ WaitClose \/ WaitReap

RunNext == MainThread \/ WorkerStep \/ WorkerErr \/ ChildExit

RunLive ==
    /\ Init
    /\ [][RunNext]_vars
    /\ WF_vars(MainThread)
    /\ WF_vars(WorkerStep)
    /\ SF_vars(TurnDeliver)

--------------------------------------------------------------------------
(* Properties *)

(* a fatal failure while a line is processed *)
PerTrackFailure == failure # "" /\ nread > 0

(* C1, as stated: a per-track fatal failure aborts only the current line; *)
(* the run as a whole is not terminated by it and goes on to the next     *)
(* input line.                                                             *)
C1_RunContinues == PerTrackFailure => pc # "panicked"

(* C1, amended: a per-track fatal failure panics the main thread and ends *)
(* the run: from then on no line is read, no step is taken and no output  *)
(* is produced.                                                            *)
C1_FailureEndsRun ==
    /\ [](PerTrackFailure => pc = "panicked")
    /\ [][pc = "panicked" => UNCHANGED vars]_vars

C1_Witness ==
    /\ pc = "panicked"
    /\ failure = "Cannot get audio key"
    /\ nread = 1
    /\ nread < MaxLines
    /\ outputs = <<>>

(* the Track::get calls of the alternatives walk *)
AltLog == SubSeq(fetchLog, 2, Len(fetchLog))

(* C2: resolve(ref) is the metadata fetched for ref when that is          *)
(* available; otherwise the metadata of the first alternative, in list    *)
(* order, whose fetched metadata is available; and it fails when no       *)
(* alternative is available, the empty list included.                     *)
C2_Resolve ==
    /\ [](pc \in {"find_map", "alt_wait"} =>
            /\ ~track.available
            /\ track.id = id
            /\ Len(AltLog) = altIdx - 1
            /\ \A j \in 1..Len(AltLog) :
                 AltLog[j] = [at |-> j, id |-> track.alternatives[j],
                              res |-> "unavailable"])
    /\ [][/\ (pc = "track_wait" /\ pc' = "artists") =>
                /\ track'.available
                /\ track'.id = id
                /\ fetchLog' = <<[at |-> 0, id |-> id, res |-> "available"]>>
          /\ (pc = "track_wait" /\ pc' = "find_map") =>
                fetchLog' = <<[at |-> 0, id |-> id, res |-> "unavailable"]>>
          /\ (pc = "alt_wait" /\ pc' = "artists") =>
                /\ track'.available
                /\ track'.id = track.alternatives[altIdx]
                /\ fetchLog' = Append(fetchLog,
                      [at |-> altIdx, id |-> track.alternatives[altIdx],
                       res |-> "available"])
          /\ (pc = "alt_wait" /\ pc' = "find_map") =>
                /\ track' = track
                /\ fetchLog' = Append(fetchLog,
                      [at |-> altIdx, id |-> track.alternatives[altIdx],
                       res |-> "unavailable"])
          /\ (pc = "find_map" /\ pc' = "panicked") =>
                /\ Len(AltLog) = Len(track.alternatives)
                /\ failure' = "Could not find alternative"
          /\ (pc = "find_map" /\ Len(AltLog) = Len(track.alternatives)) =>
                pc' = "panicked"
       ]_vars

(* the second of two alternatives is the first available one *)
C2_Witness ==
    /\ pc = "artists"
    /\ track.available
    /\ track.id = <<4>>
    /\ id = <<1>>
    /\ fetchLog = << [at |-> 0, id |-> <<1>>, res |-> "unavailable"],
                     [at |-> 1, id |-> <<3>>, res |-> "unavailable"],
                     [at |-> 2, id |-> <<4>>, res |-> "available"] >>

(* C3: the Track::get calls of one line are sequential and short-         *)
(* circuiting: one call for the original reference, which is not retried; *)
(* then the alternatives one at a time, each list position once, in list  *)
(* order, with at most one call in flight; and no call after an available *)
(* answer.                                                                 *)
C3_FetchSequence ==
    /\ Cardinality(inflight) <= 1
    /\ \A i \in 1..Len(fetchLog) : fetchLog[i].at = i - 1
    /\ \A i \in 1..(Len(fetchLog) - 1) : fetchLog[i].res = "unavailable"
    /\ fetchLog # <<>> => fetchLog[1].id = id
    /\ pc \in {"find_map", "alt_wait"} =>
          \A j \in 1..Len(AltLog) : AltLog[j].id = track.alternatives[j]
    /\ pc = "alt_wait" =>
          /\ altIdx = Len(fetchLog)
          /\ inflight = {[op |-> "track", arg |-> track.alternatives[altIdx]]}
    /\ pc = "track_wait" =>
          /\ fetchLog = <<>>
          /\ inflight = {[op |-> "track", arg |-> id]}
    /\ pc \notin {"track_wait", "alt_wait"} =>
          \A r \in inflight : r.op # "track"
    /\ pc \notin {"for_each", "track_wait", "find_map", "alt_wait",
                  "lines", "filter_map", "start", "credentials", "connect",
                  "done", "exited", "panicked"} =>
          /\ fetchLog # <<>>
          /\ fetchLog[Len(fetchLog)].res = "available"
          /\ fetchLog[Len(fetchLog)].id = track.id

(* an available original: its processing goes on with no alternative fetched *)
C3_WitnessDirect ==
    /\ pc = "write_file"
    /\ fetchLog = << [at |-> 0, id |-> <<2>>, res |-> "available"] >>
    /\ track.id = id

(* an unavailable original whose first alternative is available while a   *)
(* second one is listed: the second is never fetched                       *)
C3_Witness ==
    /\ pc = "decrypt"
    /\ id = <<1>>
    /\ track.id = <<4>>
    /\ fetchLog = << [at |-> 0, id |-> <<1>>, res |-> "unavailable"],
                     [at |-> 1, id |-> <<4>>, res |-> "available"] >>

(* the preference order of the tiers, best first *)
Preference == <<"OGG_VORBIS_320", "OGG_VORBIS_160", "OGG_VORBIS_96">>

(* C4: select returns the file handle of the best tier present in the     *)
(* map, whatever else the map holds; it fails exactly when no tier is     *)
(* present; and it performs no transport operation.                        *)
C4_Select ==
    LET present == { k \in 1..Len(Preference) :
                        Preference[k] \in DOMAIN track.files }
    IN  /\ inflight = {}
        /\ fetchLog = << [at |-> 0, id |-> id, res |-> "available"] >>
        /\ pc # "select" =>
              IF present = {}
              THEN /\ pc = "panicked"
                   /\ failure = "Could not find a OGG_VORBIS format"
                   /\ file_id = NoFile
              ELSE /\ pc = "key_req"
                   /\ failure = ""
                   /\ file_id = FileHandle(track.id, Preference[Min(present)])

(* the middle tier chosen over the lowest, an unrecognized format ignored *)
C4_Witness ==
    /\ pc = "key_req"
    /\ DOMAIN track.files = {"OGG_VORBIS_160", "OGG_VORBIS_96", "MP3_256"}
    /\ file_id = FileHandle(track.id, "OGG_VORBIS_160")

Last(seq) == seq[Len(seq)]

Increasing(seq) == \A i \in 1..(Len(seq) - 1) : seq[i] < seq[i + 1]

Happened(e) == \E i \in 1..Len(events) : events[i] = e

Count(e) == Cardinality({ i \in 1..Len(events) : events[i] = e })

(* e and f both happened, each once, e first *)
Before(e, f) ==
    /\ Count(e) = 1
    /\ Count(f) = 1
    /\ \E i, j \in 1..Len(events) : i < j /\ events[i] = e /\ events[j] = f

(* C5: between spawning the worker and loading the flag as set, the main  *)
(* thread touches neither buffer nor read_all; the worker touches neither *)
(* once it has set the flag; the flag is stored only by the worker, once, *)
(* from false to true.                                                     *)
C5_Handoff ==
    /\ \A a \in acc : a.who = "main" => (~a.spawned \/ a.seen)
    /\ \A a \in acc : a.who = "worker" => (a.spawned /\ ~a.flag)
    /\ Len(stores) <= 1
    /\ \A i \in 1..Len(stores) :
         stores[i] = [who |-> "worker", from |-> FALSE, to |-> TRUE]
    /\ fetched <=> Len(stores) = 1
    /\ observed => fetched
    /\ Happened("loop_left") => Len(stores) = 1

(* both threads have touched the slots, on their own sides of the flag *)
C5_Witness ==
    /\ pc = "decrypt"
    /\ [who |-> "worker", obj |-> "buffer", spawned |-> TRUE,
        flag |-> FALSE, seen |-> FALSE] \in acc
    /\ [who |-> "worker", obj |-> "read_all", spawned |-> TRUE,
        flag |-> FALSE, seen |-> FALSE] \in acc
    /\ [who |-> "main", obj |-> "read_all", spawned |-> TRUE,
        flag |-> TRUE, seen |-> TRUE] \in acc
    /\ stores = << [who |-> "worker", from |-> FALSE, to |-> TRUE] >>
    /\ turns >= 2

(* the whole encrypted file, as the transport serves it *)
WholeFile ==
    [i \in 1..encrypted_file.len |-> CipherByte(encrypted_file.file, i)]

(* C6: with bytes that become readable only through the main thread's     *)
(* event-loop advances, several of them, and both threads scheduled       *)
(* fairly, the worker ends its read and sets the flag, the main thread    *)
(* leaves the polling loop and the scope, and after a successful read the *)
(* buffer holds the whole encrypted file.                                  *)
C6_BridgingCompletes ==
    /\ (pc = "spawn") ~> (fetched /\ wpc \in {"return", "idle"})
    /\ (pc = "spawn") ~> (pc = "join" /\ observed)
    /\ (pc = "spawn") ~> (pc \in {"decrypt", "panicked"})
    /\ []((pc \in {"join", "read_all", "decrypt"} /\ read_all.ok) =>
             (buffer = WholeFile /\ read_all.n = encrypted_file.len))

(* the loop was left after the advances that delivered the file in chunks *)
C6_Witness ==
    /\ pc = "join"
    /\ observed
    /\ read_all.ok
    /\ turns >= 2
    /\ encrypted_file.len = PreambleLen + MaxPayload
    /\ Len(buffer) = encrypted_file.len

(* C7: the lines are processed one after the other: the next line is      *)
(* taken only when the line before it has been dispatched, with no        *)
(* request in flight, the worker idle and the helper gone; the worker     *)
(* runs only inside the scope; at most one request is in flight.          *)
C7_Sequential ==
    /\ Cardinality(inflight) <= 1
    /\ inflight # {} => pc \in {"track_wait", "alt_wait", "artist_wait",
                                "key_wait", "open_wait", "album_wait"}
    /\ wpc # "idle" => pc \in {"poll", "turn", "join"}
    /\ child.state = "running" => pc \in {"write_all", "wait", "reap", "panicked"}
    /\ Increasing(refs)
    /\ Increasing(outputs)
    /\ \A i \in 1..Len(outputs) : \E j \in 1..Len(refs) : outputs[i] = refs[j]
    /\ pc \in {"lines", "filter_map", "done"} =>
          \A j \in 1..Len(refs) : \E i \in 1..Len(outputs) : outputs[i] = refs[j]
    /\ pc \notin {"lines", "filter_map", "done"} =>
          \A i \in 1..Len(outputs) : outputs[i] < nread
    /\ (pc = "lines" /\ outputs # <<>> /\ Last(outputs) = nread) =>
          IF args = 1 THEN Happened("file_write")
          ELSE Before("helper_close", "helper_wait") /\ child.state = "exited"

(* two lines, each dispatched, the second after the first *)
C7_Witness ==
    /\ pc = "lines"
    /\ nread = 2
    /\ refs = <<1, 2>>
    /\ outputs = <<1, 2>>
    /\ args = 2

(* the current line was processed to its end *)
Succeeded ==
    /\ pc \in {"lines", "done"}
    /\ outputs # <<>>
    /\ Last(outputs) = nread

(* C8: for every track processed to its end, in either mode, what is      *)
(* delivered is the decrypted buffer without its first 167 bytes; the     *)
(* decrypted buffer is as long as the encrypted file.                      *)
C8_Payload ==
    Succeeded =>
        LET out == IF args = 1 THEN fs[1].content ELSE child.stdin
        IN  /\ Len(buffer) = encrypted_file.len
            /\ Len(decrypted_buffer) = encrypted_file.len
            /\ Len(out) = encrypted_file.len - PreambleLen
            /\ \A i \in 1..Len(out) : out[i] = decrypted_buffer[PreambleLen + i]
            /\ delivered = << out >>

C8_Witness ==
    /\ Succeeded
    /\ args = 2
    /\ encrypted_file.len = PreambleLen + MaxPayload
    /\ Len(child.stdin) = MaxPayload

C8_WitnessFile ==
    /\ Succeeded
    /\ args = 1
    /\ encrypted_file.len = PreambleLen + MaxPayload
    /\ Len(fs[1].content) = MaxPayload

(* C9: helper mode spawns the helper with a piped stdin, writes the whole *)
(* payload, closes the pipe, then waits; the pipe is closed before the    *)
(* wait begins; a non-zero exit status fails the line.                     *)
C9_HelperOrder ==
    /\ child.state # "none" => (args = 2 /\ Count("helper_spawn") = 1)
    /\ Happened("helper_spawn") => child.state # "none" /\ child.pipe # "none"
    /\ Happened("helper_write") => Before("helper_spawn", "helper_write")
    /\ Happened("helper_close") => Before("helper_write", "helper_close")
    /\ Happened("helper_wait") => Before("helper_close", "helper_wait")
    /\ pc = "reap" => child.pipe = "closed"
    /\ child.pipe = "closed" =>
          child.stdin = SubSeq(decrypted_buffer, PreambleLen + 1,
                               Len(decrypted_buffer))
    /\ Happened("helper_wait") =>
          /\ child.state = "exited"
          /\ child.pipe = "closed"
          /\ IF child.status = 0
             THEN Succeeded
             ELSE /\ pc = "panicked"
                  /\ failure = "Helper script returned an error"
                  /\ \A i \in 1..Len(outputs) : outputs[i] # nread

(* the helper got the payload, its stdin was closed, it exited non-zero *)
C9_Witness ==
    /\ Happened("helper_wait")
    /\ child.status = 1
    /\ child.pipe = "closed"
    /\ Len(child.stdin) = MaxPayload
    /\ pc = "panicked"

(* prefix ([[:alnum:]]+) matches in str at position i *)
FormAt(prefix, str, i) ==
    /\ i + Len(prefix) <= Len(str)
    /\ SubSeq(str, i, i + Len(prefix) - 1) = prefix
    /\ IsAlnum(str[i + Len(prefix)])

HasForm(prefix, str) == \E i \in 1..Len(str) : FormAt(prefix, str, i)

(* r is the identifier of the first occurrence of the form in str *)
FormYields(prefix, str, r) ==
    \E i \in 1..Len(str) :
        /\ FormAt(prefix, str, i)
        /\ \A k \in 1..(i - 1) : ~FormAt(prefix, str, k)
        /\ \E j \in (i + Len(prefix))..Len(str) :
             /\ \A k \in (i + Len(prefix))..j : IsAlnum(str[k])
             /\ (j = Len(str) \/ ~IsAlnum(str[j + 1]))
             /\ from_base62(SubSeq(str, i + Len(prefix), j)) = << r >>

(* C10: the Extractor yields at most one id per line, in input order; on  *)
(* a line with the URI form the id is the URI form's, wherever the URL    *)
(* form stands on the line; otherwise it is the URL form's.                *)
C10_Extractor ==
    /\ Increasing(refs)
    /\ \A i \in 1..Len(refs) : refs[i] \in 1..nread
    /\ pc = "filter_map" => (refs = <<>> \/ Last(refs) < nread)
    /\ pc = "for_each" =>
          /\ refs # <<>>
          /\ Last(refs) = nread
          /\ IF HasForm(UriPrefix, line)
             THEN FormYields(UriPrefix, line, id)
             ELSE FormYields(UrlPrefix, line, id)
    /\ pc \notin {"start", "credentials", "connect", "lines", "filter_map",
                  "done", "exited", "panicked"} =>
          /\ id # NoId
          /\ refs # <<>>
          /\ Last(refs) = nread

(* the URL form stands first on the second line, the URI form's id is taken *)
C10_Witness ==
    /\ pc = "for_each"
    /\ line = UrlLine \o <<" ">> \o UriLine
    /\ id = <<1>>
    /\ refs = <<1, 2>>

(* the locals of the for_each closure hold nothing of an earlier line *)
FreshLocals ==
    /\ id = NoId
    /\ track = NoTrack
    /\ fetchLog = <<>>
    /\ inflight = {}
    /\ artists_strs = <<>>
    /\ file_id = NoFile
    /\ key = NoKey
    /\ encrypted_file = NoStream
    /\ wpc = "idle"
    /\ decrypted_buffer = <<>>
    /\ album = NoAlbum
    /\ child = NoChild
    /\ fs = <<>>
    /\ delivered = <<>>

(* C11: a line matching neither form produces the warning and nothing     *)
(* else: no transport operation, no output, no panic; it yields no        *)
(* reference, and the line read after it starts from fresh locals.         *)
C11_UnparsedLine ==
    /\ [](Happened("warn: Cannot parse track") =>
            /\ events = <<"warn: Cannot parse track">>
            /\ pc \in {"lines", "done"}
            /\ failure = ""
            /\ FreshLocals
            /\ \A i \in 1..Len(outputs) : outputs[i] # nread
            /\ \A i \in 1..Len(refs) : refs[i] # nread)
    /\ [][(pc = "filter_map" /\ UriOrUrl(line) = <<>>) =>
             (pc' = "lines" /\ events' = <<"warn: Cannot parse track">>)]_vars
    /\ [][(Happened("warn: Cannot parse track") /\ pc' = "filter_map") =>
             /\ nread' = nread + 1
             /\ events' = <<>>
             /\ failure' = ""
             /\ FreshLocals'
             /\ UNCHANGED <<refs, outputs>>]_vars

(* the first line was no reference and was skipped, a second line is left *)
C11_Witness ==
    /\ pc = "lines"
    /\ events = <<"warn: Cannot parse track">>
    /\ nread = 1
    /\ nread < MaxLines
    /\ refs = <<>>

(* the run ended at start-up *)
StartupFailure == failure \in {"Usage", "No credentials found.", "connect"}

Terminated == pc \in {"done", "panicked", "exited"}

(* C13, as stated: for a finite input with every transport operation      *)
(* completing, the run eventually terminates.                              *)
C13_Terminates == <>Terminated

(* C13, amended: when, in addition, every helper process eventually       *)
(* exits, the run eventually terminates; a run that ends at the end of    *)
(* the input has produced one output per line that yielded a reference,   *)
(* in input order, all of them in the one mode the arguments select.      *)
C13_TerminatesIfHelperExits ==
    /\ WF_vars(ChildExit) => <>Terminated
    /\ [](pc = "done" => (failure = "" /\ outputs = refs /\ Increasing(outputs)))
    /\ [](args = 1 => (child = NoChild /\ album = NoAlbum))
    /\ [](args = 2 => fs = <<>>)
    /\ [](Succeeded => IF args = 1
                       THEN Happened("file_write") /\ Len(fs) = 1
                       ELSE Happened("helper_wait") /\ child.status = 0)
    /\ [][args' = args]_vars

(* the input has ended after two lines, each with its output by a helper *)
C13_Witness ==
    /\ pc = "done"
    /\ args = 2
    /\ nread = MaxLines
    /\ refs = <<1, 2>>
    /\ outputs = <<1, 2>>
    /\ child.state = "exited"

(* the steps of Fetch-Decrypt and of the dispatch among the events *)
IsStep(e) ==
    e \in {"key_req", "open_req", "spawn_worker", "loop_left", "decrypt",
           "file_write", "helper_spawn", "helper_write"}

Steps == SelectSeq(events, IsStep)

StepOrder ==
    <<"key_req", "open_req", "spawn_worker", "loop_left", "decrypt">> \o
    (IF args = 1 THEN <<"file_write">> ELSE <<"helper_spawn", "helper_write">>)

(* the steps of the current line are in order and on the whole file *)
StepsInOrder ==
    /\ Len(Steps) <= Len(StepOrder)
    /\ Steps = SubSeq(StepOrder, 1, Len(Steps))
    /\ Happened("open_req") => key = [track |-> track.id, file |-> file_id]
    /\ encrypted_file # NoStream =>
          (Happened("open_req") /\ encrypted_file.file = file_id)
    /\ Happened("spawn_worker") => encrypted_file # NoStream
    /\ (pc = "decrypt" \/ Happened("decrypt")) =>
          /\ Happened("loop_left")
          /\ observed
          /\ wpc = "idle"
          /\ read_all = [ok |-> TRUE, n |-> encrypted_file.len]
          /\ Len(buffer) = encrypted_file.len
    /\ pc = "decrypt" => buffer = WholeFile
    /\ pc \in {"write_file", "album_req"} =>
          decrypted_buffer = Decrypt(key, WholeFile)
    /\ Happened("decrypt") => Len(decrypted_buffer) = Len(buffer)
    /\ ~Happened("decrypt") => (decrypted_buffer = <<>> /\ delivered = <<>>)
    /\ delivered # <<>> => delivered = << Payload(decrypted_buffer) >>

(* C14: within a track the steps are key request, stream open, bridging   *)
(* read, decryption, strip and dispatch, in this order and each at most   *)
(* once; the key is obtained once and kept; the stream is opened with the *)
(* key in hand; decryption starts after the flag was seen set with an Ok  *)
(* read result, on the whole file.                                         *)
C14_FetchDecryptOrder ==
    /\ []StepsInOrder
    /\ [][key' # key => (pc = "key_wait" \/ pc = "lines")]_vars
    /\ [][encrypted_file'.file # encrypted_file.file =>
             (pc = "open_wait" \/ pc = "lines")]_vars
    /\ [][decrypted_buffer' # decrypted_buffer =>
             (pc = "decrypt" \/ pc = "lines")]_vars

(* a track that went through every step, handed to a helper *)
C14_Witness ==
    /\ Succeeded
    /\ pc = "lines"
    /\ args = 2
    /\ Steps = StepOrder
    /\ turns >= 2

(* no recognized tier among the formats of the track *)
NoTier(t) ==
    DOMAIN t.files \cap {"OGG_VORBIS_320", "OGG_VORBIS_160", "OGG_VORBIS_96"} = {}

(* C16: a track that is available but offers none of the three tiers      *)
(* fails at the selection: no key request, stream, worker, decryption or  *)
(* output; the transport operations made for the line are the track and   *)
(* the artist fetches.                                                     *)
C16_NoTierFailsEarly ==
    /\ (Happened("select") /\ NoTier(track)) =>
          /\ pc = "panicked"
          /\ failure = "Could not find a OGG_VORBIS format"
          /\ track.available
          /\ inflight = {}
          /\ \A k \in 1..Len(events) :
               events[k] \in {"warn: not available",
                              "warn: Found track alternative", "artist", "select"}
          /\ Count("artist") = Len(track.artists)
          /\ Count("select") = 1
          /\ fetchLog # <<>>
          /\ Last(fetchLog).id = track.id
          /\ file_id = NoFile
          /\ key = NoKey
          /\ encrypted_file = NoStream
          /\ wpc = "idle"
          /\ buffer = <<>>
          /\ stores = <<>>
          /\ decrypted_buffer = <<>>
          /\ album = NoAlbum
          /\ child = NoChild
          /\ fs = <<>>
          /\ delivered = <<>>
          /\ \A i \in 1..Len(outputs) : outputs[i] # nread
    /\ failure = "Could not find a OGG_VORBIS format" => NoTier(track)
    /\ Happened("key_req") => ~NoTier(track)

(* only an unrecognized format is offered; the artists had been fetched *)
C16_Witness ==
    /\ pc = "panicked"
    /\ failure = "Could not find a OGG_VORBIS format"
    /\ DOMAIN track.files = {"MP3_256"}
    /\ Len(artists_strs) = MaxArtists

(* an alternative took the place of the track of the line *)
Substituted == Happened("warn: Found track alternative")

NamesOf(arts) == [i \in 1..Len(arts) |-> ArtistName(arts[i])]

(* every step after a substitution has worked on the substitute *)
OnSubstitute ==
    Substituted =>
      LET sub == Last(fetchLog).id IN
        /\ Last(fetchLog) = [at |-> Len(fetchLog) - 1, id |-> sub,
                             res |-> "available"]
        /\ Len(fetchLog) >= 2
        /\ sub # id
        /\ track.id = sub
        /\ track.name = <<"track", sub>>
        /\ track.album = <<"album", sub>>
        /\ track.files = FileMap(sub, DOMAIN track.files)
        /\ track.available
        /\ \E k \in 1..Len(events) :
             /\ events[k] = "warn: Found track alternative"
             /\ \A j \in 1..(k - 1) : events[j] = "warn: not available"
        /\ artists_strs = SubSeq(NamesOf(track.artists), 1, Len(artists_strs))
        /\ \A r \in inflight :
             /\ r.op = "artist" => r.arg = track.artists[Len(artists_strs) + 1]
             /\ r.op = "key" => r.arg = << sub, file_id >>
             /\ r.op = "open" => r.arg = file_id
             /\ r.op = "album" => r.arg = <<"album", sub>>
             /\ r.op # "track"
        /\ file_id # NoFile => file_id = SelectFile(FileMap(sub, DOMAIN track.files))[1]
        /\ key # NoKey => key = [track |-> sub, file |-> file_id]
        /\ encrypted_file # NoStream => encrypted_file.file.track = sub
        /\ album # NoAlbum => album = AlbumMeta(<<"album", sub>>)
        /\ fs # <<>> => fs[1].name = FileName(NamesOf(track.artists), <<"track", sub>>)
        /\ child.state # "none" =>
              /\ child.argv[2] = <<"track", sub>>
              /\ child.argv[3] = AlbumMeta(<<"album", sub>>).name

(* C17: after a substitution every step of the line works on the          *)
(* substitute: artists, name, album, files and the track id of the key    *)
(* request are the substitute's, never those of the track of the line;    *)
(* the warning about the substitution comes before all of them; the       *)
(* substitute stays the track of the line.                                 *)
C17_SubstituteUsed ==
    /\ []OnSubstitute
    /\ [][(Substituted /\ Substituted') => track' = track]_vars

(* the second alternative was substituted and its file written *)
C17_Witness ==
    /\ Substituted
    /\ Succeeded
    /\ args = 1
    /\ id = <<1>>
    /\ track.id = <<4>>
    /\ Len(fetchLog) = 3
    /\ fs[1].name = FileName(NamesOf(SubSeq(ArtistOrder, 1, MaxArtists)),
                             <<"track", <<4>>>>)

(* C18: the helper's first argument is the identifier extracted from the  *)
(* line, also after a substitution, when it is not the id of the track    *)
(* that is delivered; then track name, album name, album date and the     *)
(* artist names in the track's order.                                      *)
C18_HelperArguments ==
    /\ [](child.state # "none" =>
            /\ child.argv =
                  << to_base62(id), <<"track", track.id>>,
                     AlbumMeta(<<"album", track.id>>).name,
                     AlbumMeta(<<"album", track.id>>).date >>
                  \o NamesOf(track.artists)
            /\ fetchLog[1].id = id
            /\ Last(refs) = nread
            /\ Substituted => child.argv[1] # to_base62(track.id))
    /\ [][id' # id =>
             \/ pc = "filter_map" /\ id' = Extract(line)[1]
             \/ pc = "lines" /\ id' = NoId]_vars

(* a helper spawned for a substitute, with the id of the line *)
C18_Witness ==
    /\ child.state = "running"
    /\ Substituted
    /\ id = <<2>>
    /\ track.id = <<3>>
    /\ child.argv[1] = to_base62(<<2>>)
    /\ Len(child.argv) = 4 + MaxArtists

(* the decrypted buffer does not reach the end of the preamble *)
ShortBuffer == Happened("decrypt") /\ Len(decrypted_buffer) < PreambleLen

(* C19: a decrypted buffer shorter than 167 bytes fails the track with no *)
(* byte delivered; in file mode before anything is written, in helper     *)
(* mode after the album fetch and the spawn of a helper that is neither   *)
(* written to nor waited on.                                               *)
C19_ShortBuffer ==
    /\ ShortBuffer =>
          /\ pc \in {"write_file", "album_req", "album_wait", "spawn_helper",
                     "write_all", "panicked"}
          /\ delivered = <<>>
          /\ fs = <<>>
          /\ child.stdin = <<>>
          /\ child.pipe # "closed"
          /\ \A i \in 1..Len(outputs) : outputs[i] # nread
          /\ ~Happened("file_write")
          /\ ~Happened("helper_write")
          /\ ~Happened("helper_close")
          /\ ~Happened("helper_wait")
    /\ failure = "slice index out of range" =>
          /\ ShortBuffer
          /\ pc = "panicked"
          /\ IF args = 1
             THEN child = NoChild /\ album = NoAlbum /\ ~Happened("album")
             ELSE /\ Before("album", "helper_spawn")
                  /\ album = AlbumMeta(track.album)
                  /\ child.state # "none"
    /\ (ShortBuffer /\ pc = "panicked") =>
          failure \in {"slice index out of range", "Cannot get album metadata",
                       "Could not run helper program"}

(* helper mode: the helper was spawned, then the slice panicked *)
C19_Witness ==
    /\ failure = "slice index out of range"
    /\ args = 2
    /\ child.state = "running"
    /\ child.stdin = <<>>
    /\ Len(decrypted_buffer) = PreambleLen - 1

(* the worker's read has ended in Err *)
ReadFailed == ~read_all.ok

(* C15: when the worker's read ends with an I/O error the worker still    *)
(* sets the flag, the main thread leaves the polling loop, and the track  *)
(* fails at read_all.expect: nothing is decrypted, written or spawned.    *)
C15_ReadErrorEndsTrack ==
    /\ ReadFailed ~> (fetched /\ Len(stores) = 1)
    /\ (ReadFailed /\ pc \in {"poll", "turn"}) ~> (pc = "join" /\ observed)
    /\ ReadFailed ~> (pc = "panicked" /\ failure = "Cannot read file stream")
    /\ []((ReadFailed /\ wpc \in {"return", "idle"}) => fetched)
    /\ [](ReadFailed =>
            /\ pc \in {"poll", "turn", "join", "read_all", "panicked"}
            /\ Len(buffer) < encrypted_file.len
            /\ decrypted_buffer = <<>>
            /\ ~Happened("decrypt")
            /\ album = NoAlbum
            /\ child = NoChild
            /\ fs = <<>>
            /\ delivered = <<>>
            /\ outputs = <<>>)

(* the read failed after the first chunk; the track ended at the expect *)
C15_Witness ==
    /\ ReadFailed
    /\ pc = "panicked"
    /\ failure = "Cannot read file stream"
    /\ observed
    /\ Len(buffer) = ChunkBytes
    /\ Len(buffer) < encrypted_file.len

(* C20: a line with a capture that from_base62 rejects, and a line that   *)
(* cannot be read, yield no reference and are dropped with no warning and *)
(* no panic; an id that is yielded is the decoded capture of the first    *)
(* matching form, so a rejected URI capture is not replaced by the URL    *)
(* form of the same line.                                                  *)
C20_SilentDrops ==
    /\ [](Happened("from_base62: Err") =>
            /\ events = <<"from_base62: Err">>
            /\ UriOrUrl(line) # <<>>
            /\ pc \in {"lines", "done"}
            /\ failure = ""
            /\ FreshLocals
            /\ \A i \in 1..Len(refs) : refs[i] # nread
            /\ \A i \in 1..Len(outputs) : outputs[i] # nread)
    /\ [][(pc = "filter_map" /\ pc' # "for_each" /\ UriOrUrl(line) # <<>>) =>
             /\ pc' = "lines"
             /\ events' = <<"from_base62: Err">>
             /\ UNCHANGED <<failure, refs, outputs, id>>]_vars
    /\ [][(pc = "filter_map" /\ pc' = "for_each") =>
             /\ UriOrUrl(line) # <<>>
             /\ id' = StripZeros([i \in 1..Len(UriOrUrl(line)[1]) |->
                                     DigitValue(UriOrUrl(line)[1][i])])
             /\ HasForm(UriPrefix, line) => FormYields(UriPrefix, line, id')]_vars
    /\ [][(pc = "lines" /\ pc' = "lines") =>
             /\ nread' = nread + 1
             /\ line' = NoLine
             /\ events' = <<>>
             /\ FreshLocals'
             /\ UNCHANGED <<failure, refs, outputs>>]_vars

(* the URI capture of a line with both forms was rejected: the line is    *)
(* dropped although its URL form could be decoded                          *)
C20_Witness ==
    /\ pc = "lines"
    /\ events = <<"from_base62: Err">>
    /\ line = UriLine \o <<" ">> \o UrlLine
    /\ nread = 1
    /\ refs = <<>>
    /\ failure = ""

==========================================================================
